---- MODULE Spec2Model ----
(***************************************************************************)
(* A model of survey_conda_envs.py: main's loop over the start             *)
(* directories, survey's os.walk loop, the memoising make_guess, and the   *)
(* Guess constructor with its base resolution (_find_base) and version     *)
(* extraction (_find_versions), over a small filesystem.                   *)
(*                                                                         *)
(* A path string is a record [abs, c]: whether it starts with "/" and its  *)
(* components between the slashes ("" after a trailing slash, "." and ".." *)
(* kept as spelled).  An absolute normalised path, as os.path.abspath      *)
(* returns it, is the plain sequence of its components.                    *)
(***************************************************************************)
EXTENDS Integers, Sequences, FiniteSets, TLC

VARIABLES
    fs,        \* the filesystem the program probes
    starts,    \* args.starts: the start directories as spelled on the command line
    report,    \* args.report: the name of the reporter, a key of REPORT_CHOICES
    startIdx,  \* main: how many start directories have been handed to survey
    spc,       \* where the process is: "main", "walk", "guess", "done", "crashed"
    pending,   \* os.walk: the directories still to be listed, next first
    cur,       \* survey: the dirpath os.walk yielded last
    stack,     \* the call stack of make_guess and Guess.__init__ frames, top last
    ret,       \* the object a make_guess call has just returned (0: none)
    heap,      \* every Guess object constructed so far, by object id
    GUESSES,   \* Guess.GUESSES: absolute path -> object id
    reported,  \* the calls of report, in order, each with what it printed or
               \* raised and with how many directories had been visited and how
               \* many Guess objects classified by then
    errors,    \* the calls of onerror, in order
    visited,   \* the directories os.walk yielded, in order
    returned,  \* the make_guess calls that returned, in order
    classified,\* the Guess constructions that evaluated is_conda_environment
    exc,       \* the exception that ended the process ("none": none)
    nmut       \* how many times the filesystem was changed during the run

vars == <<fs, starts, report, startIdx, spc, pending, cur, stack, ret, heap, GUESSES,
          reported, errors, visited, returned, classified, exc, nmut>>

----------------------------------------------------------------------------
(* Bounds *)

\* The interpreter's limit on nested calls, scaled down.
RecursionLimit == 7
\* How many times the filesystem may change while the program runs.
MaxMutations == 1

----------------------------------------------------------------------------
(* Program constants *)

\* A mutant of PATHOLOGICAL_DIRS: .git is not in the list.
PATHOLOGICAL_DIRS_without_git == {".rbenv", "pkgs"}

PATHOLOGICAL_DIRS == {".git", ".rbenv", "pkgs"}
PACKAGES_FOR_GUESS_VERSIONS == {"conda", "python"}
N_A == "(?)"
REPORT_CHOICES == {"jira", "print"}

----------------------------------------------------------------------------
(* os.path *)

\* The process's working directory.
Cwd == <<"w">>

Path(a, comps) == [abs |-> a, c |-> comps]
NoPath == Path(FALSE, <<>>)

Front(s) == SubSeq(s, 1, Len(s) - 1)
Last(s) == s[Len(s)]

\* os.path.normpath on the components of an absolute path: empty and "."
\* components vanish, ".." removes the component before it (none at the root).
RECURSIVE NormInto(_, _)
NormInto(done, rest) ==
    IF rest = <<>> THEN done
    ELSE LET h == Head(rest) IN
         IF h = "" \/ h = "." THEN NormInto(done, Tail(rest))
         ELSE IF h = ".." THEN NormInto(IF done = <<>> THEN done ELSE Front(done), Tail(rest))
         ELSE NormInto(Append(done, h), Tail(rest))

Normpath(comps) == NormInto(<<>>, comps)

\* A mutant of Abspath: joins the working directory but does not normalise.
AbspathRaw(p) == IF p.abs THEN p.c ELSE Cwd \o p.c

\* os.path.abspath: normpath(join(getcwd(), path)).
Abspath(p) == Normpath(IF p.abs THEN p.c ELSE Cwd \o p.c)

\* os.path.basename: what follows the last slash.
Basename(p) == IF p.c = <<>> THEN "" ELSE Last(p.c)

\* os.path.dirname: what precedes the last slash.
Dirname(p) == IF p.c = <<>> THEN p ELSE Path(p.abs, Front(p.c))

\* os.path.join(p, q): q alone when q is absolute; otherwise q appended, with
\* a slash added unless p already ends in one.
Join(p, q) ==
    IF q.abs THEN q
    ELSE IF p.c # <<>> /\ Last(p.c) = "" THEN Path(p.abs, Front(p.c) \o q.c)
    ELSE Path(p.abs, p.c \o q.c)

\* An absolute normalised path as a path string.
AbsPathOf(comps) == Path(TRUE, comps)

----------------------------------------------------------------------------
(* The filesystem *)

DirRoot == Cwd
DirA == Cwd \o <<"envA">>
DirASub == Cwd \o <<"envA", "sub">>
DirB == Cwd \o <<"envB">>
DirGit == Cwd \o <<".git">>
DirGitSub == Cwd \o <<".git", "sub">>

\* The directories that exist (fixed); what they contain varies with fs:
\*   fs.meta[d]     "none": no d/conda-meta; "nohist": d/conda-meta is a
\*                  directory without a history file; "env": with one
\*   fs.act[d]      d/bin/activate: [kind |-> "absent" | "file" | "link", target]
\*   fs.listable[d] whether listing d succeeds (os.walk's scandir)
\*   fs.metaread[d] whether listing d/conda-meta succeeds
\*   fs.files[d]    the entries of d/conda-meta besides history, in listing order
\*   fs.order       the entries of the working directory, in listing order
\* d/bin is a directory and d/bin/python a regular file for every d.
DirSet == {DirRoot, DirA, DirASub, DirB, DirGit, DirGitSub}

Act(kind, target) == [kind |-> kind, target |-> target]
ActAbsent == Act("absent", NoPath)
ActFile == Act("file", NoPath)
ActLink(target) == Act("link", target)

\* lstat: the kind of the entry an absolute path names, links not followed.
Lstat(f, p) ==
    LET n == Normpath(p.c)
        k == Len(n)
    IN  IF n \in DirSet \/ (\E d \in DirSet : k < Len(d) /\ n = SubSeq(d, 1, k)) THEN "dir"
        ELSE IF k >= 1 /\ Front(n) \in DirSet /\ Last(n) = "bin" THEN "dir"
        ELSE IF k >= 1 /\ Front(n) \in DirSet /\ Last(n) = "conda-meta"
             THEN (IF f.meta[Front(n)] = "none" THEN "missing" ELSE "dir")
        ELSE IF k >= 2 /\ SubSeq(n, 1, k - 2) \in DirSet
             THEN LET d == SubSeq(n, 1, k - 2)
                      tail == SubSeq(n, k - 1, k)
                  IN  IF tail = <<"conda-meta", "history">>
                      THEN (IF f.meta[d] = "env" THEN "file" ELSE "missing")
                      ELSE IF tail = <<"bin", "python">> THEN "file"
                      ELSE IF tail = <<"bin", "activate">>
                           THEN (IF f.act[d].kind = "absent" THEN "missing" ELSE f.act[d].kind)
                      ELSE "missing"
        ELSE "missing"

\* os.readlink of d/bin/activate.
Readlink(f, p) ==
    LET n == Normpath(p.c) IN f.act[SubSeq(n, 1, Len(n) - 2)].target

\* resolve_link: a relative target is joined to the link's directory.
resolve_link(f, link) ==
    LET target == Readlink(f, link)
    IN  IF ~target.abs THEN Join(Dirname(link), target) ELSE target

\* stat: the kind of the entry a path names, links followed (at most fuel
\* of them: a longer chain is a loop, which stat reports as an error).
RECURSIVE StatN(_, _, _)
StatN(f, p, fuel) ==
    LET k == Lstat(f, p)
    IN  IF k # "link" THEN k
        ELSE IF fuel = 0 THEN "missing"
        ELSE StatN(f, resolve_link(f, p), fuel - 1)

Stat(f, p) == StatN(f, p, Cardinality(DirSet))

\* os.path.isdir, os.path.isfile (both follow links), os.path.islink.
IsDir(f, p) == Stat(f, p) = "dir"
IsFile(f, p) == Stat(f, p) = "file"
IsLink(f, p) == Lstat(f, p) = "link"

\* The subdirectories os.walk finds in a directory, in listing order.
Dirnames(f, d) ==
    IF d = DirRoot THEN f.order
    ELSE IF d = DirA \/ d = DirGit THEN <<"sub">>
    ELSE <<>>

\* Whether os.walk can list the directory a dirpath names.
CanList(f, p) == Abspath(p) \in DirSet /\ f.listable[Abspath(p)]

----------------------------------------------------------------------------
(* Guess *)

\* The paths Guess.__init__ derives from self.path.
meta_dir(path) == Join(AbsPathOf(path), Path(FALSE, <<"conda-meta">>))
history_file(path) == Join(meta_dir(path), Path(FALSE, <<"history">>))
bin_dir(path) == Join(AbsPathOf(path), Path(FALSE, <<"bin">>))
activate_file(path) == Join(bin_dir(path), Path(FALSE, <<"activate">>))

\* A mutant of is_conda_environment: the history file is not required.
is_conda_environment_nohistory(f, path) == IsDir(f, meta_dir(path))

\* Guess.is_conda_environment, probing the filesystem as it is now.
is_conda_environment(f, path) ==
    IF ~IsDir(f, meta_dir(path)) THEN FALSE
    ELSE IF ~IsFile(f, history_file(path)) THEN FALSE
    ELSE TRUE

\* The values of Guess.base: not yet assigned, None, a Guess, a path string.
Base(t, id, p) == [t |-> t, id |-> id, p |-> p]
BaseUnset == Base("unset", 0, NoPath)
BaseNone == Base("none", 0, NoPath)
BaseObj(id) == Base("obj", id, NoPath)
BaseStr(p) == Base("str", 0, p)

\* The keys a versions dict can hold, and its values: "absent" for a key the
\* dict does not hold, "None" for a key mapped to None.
VersionKeys == {"conda", "python", "conda-env", "numpy"}
NoVersions == [k \in VersionKeys |-> "absent"]
\* The attribute before _find_versions has assigned it.
UnsetVersions == [k \in VersionKeys |-> "unset"]

\* An entry of conda-meta: its file name as <<prefix, rest, extension>>,
\* whether open() succeeds, whether json.load() succeeds, and the "name" and
\* "version" members of the parsed object ("None": no such member).
MetaFile(name, openable, wellformed, dname, dversion) ==
    [name |-> name, openable |-> openable, wellformed |-> wellformed,
     dname |-> dname, dversion |-> dversion]

endswith_json(name) == name # <<>> /\ Last(name) = ".json"
startswith(name, prefix) == name # <<>> /\ Head(name) = prefix

\* What _find_base assigns to base, or the call it has to make first:
\* "none", "self", "str" (the candidate directory as a string) or "call"
\* (make_guess of the candidate directory).
BaseStep(kind, dir) == [kind |-> kind, dir |-> dir]

\* A mutant of find_base: the candidate base is the directory of the link's
\* target, one level up instead of two.
find_base_onelevel(f, path) ==
    IF is_conda_environment(f, path)
    THEN IF IsLink(f, activate_file(path))
         THEN LET base_activate_file == resolve_link(f, activate_file(path))
                  base_bin_dir == Dirname(base_activate_file)
              IN  IF IsLink(f, base_activate_file)
                  THEN BaseStep("str", base_bin_dir)
                  ELSE BaseStep("call", base_bin_dir)
         ELSE IF IsFile(f, activate_file(path)) THEN BaseStep("self", NoPath)
         ELSE BaseStep("none", NoPath)
    ELSE BaseStep("none", NoPath)

\* A mutant of find_base: a link whose target does not exist gives no base.
find_base_existing_target(f, path) ==
    IF is_conda_environment(f, path)
    THEN IF IsLink(f, activate_file(path))
         THEN LET base_activate_file == resolve_link(f, activate_file(path))
                  base_bin_dir == Dirname(base_activate_file)
                  base_dir == Dirname(base_bin_dir)
              IN  IF IsLink(f, base_activate_file)
                  THEN BaseStep("str", base_dir)
                  ELSE IF Lstat(f, base_activate_file) = "missing"
                       THEN BaseStep("none", NoPath)
                       ELSE BaseStep("call", base_dir)
         ELSE IF IsFile(f, activate_file(path)) THEN BaseStep("self", NoPath)
         ELSE BaseStep("none", NoPath)
    ELSE BaseStep("none", NoPath)

\* Guess._find_base up to its call of make_guess.
find_base(f, path) ==
    IF is_conda_environment(f, path)
    THEN IF IsLink(f, activate_file(path))
         THEN LET base_activate_file == resolve_link(f, activate_file(path))
                  base_bin_dir == Dirname(base_activate_file)
                  base_dir == Dirname(base_bin_dir)
              IN  IF IsLink(f, base_activate_file)
                  THEN BaseStep("str", base_dir)
                  ELSE BaseStep("call", base_dir)
         ELSE IF IsFile(f, activate_file(path)) THEN BaseStep("self", NoPath)
         ELSE BaseStep("none", NoPath)
    ELSE BaseStep("none", NoPath)

\* The loop of _find_versions over the listing: the dict built, or the
\* exception that leaves the loop.
VersionsResult(status, versions) == [status |-> status, versions |-> versions]

RECURSIVE VersionsLoop(_, _)
\* A mutant of VersionsLoop: a file that does not parse is skipped.
VersionsLoopSkipping(meta_names, versions) ==
    IF meta_names = <<>> THEN VersionsResult("ok", versions)
    ELSE LET mf == Head(meta_names)
             rest == Tail(meta_names)
         IN  IF ~endswith_json(mf.name) THEN VersionsLoop(rest, versions)
             ELSE IF ~(\E pk \in PACKAGES_FOR_GUESS_VERSIONS : startswith(mf.name, pk))
                  THEN VersionsLoop(rest, versions)
             ELSE IF ~mf.openable THEN VersionsResult("OSError", versions)
             ELSE IF ~mf.wellformed THEN VersionsLoop(rest, versions)
             ELSE IF mf.dname # "None"
                  THEN VersionsLoop(rest, [versions EXCEPT ![mf.dname] = mf.dversion])
             ELSE VersionsLoop(rest, versions)

VersionsLoop(meta_names, versions) ==
    IF meta_names = <<>> THEN VersionsResult("ok", versions)
    ELSE LET mf == Head(meta_names)
             rest == Tail(meta_names)
         IN  IF ~endswith_json(mf.name) THEN VersionsLoop(rest, versions)
             ELSE IF ~(\E pk \in PACKAGES_FOR_GUESS_VERSIONS : startswith(mf.name, pk))
                  THEN VersionsLoop(rest, versions)
             ELSE IF ~mf.openable THEN VersionsResult("OSError", versions)
             ELSE IF ~mf.wellformed THEN VersionsResult("ParseError", versions)
             ELSE IF mf.dname # "None"
                  THEN VersionsLoop(rest, [versions EXCEPT ![mf.dname] = mf.dversion])
             ELSE VersionsLoop(rest, versions)

\* Guess._find_versions.
find_versions(f, path) ==
    IF is_conda_environment(f, path)
    THEN IF ~f.metaread[path] THEN VersionsResult("OSError", NoVersions)
         ELSE VersionsLoop(f.files[path], NoVersions)
    ELSE VersionsResult("ok", NoVersions)

\* A Guess object; base and versions are assigned by the constructor's steps.
NewGuess(dirpath) ==
    [dirpath |-> dirpath, path |-> Abspath(dirpath),
     base |-> BaseUnset, versions |-> UnsetVersions]

----------------------------------------------------------------------------
(* The reporters *)

\* What a call of a reporter does: the fields of the line it prints, each a
\* sequence of the strings it is made of, or the exception it raises.
Outcome(status, line) == [status |-> status, line |-> line]

\* dict.get(key, default).
dict_get(versions, key, default) ==
    IF versions[key] = "absent" THEN default ELSE versions[key]

\* str.startswith('2.'), on the version strings the metadata files carry.
startswith_2(v) == v \in {"2.7.18"}

\* report_for_jira(guess) for the Guess with object id in heap h.  None has
\* no startswith: a python version of None raises AttributeError.
report_for_jira(h, id) ==
    LET guess == h[id]
        host == <<"host">>
        conda_ver == dict_get(guess.versions, "conda", N_A)
        python_ver == dict_get(guess.versions, "python", N_A)
    IN  IF python_ver = "None" THEN Outcome("AttributeError", <<>>)
        ELSE LET python_out == IF startswith_2(python_ver) THEN <<python_ver, "(!)">>
                               ELSE <<python_ver>>
                 base == IF guess.base.t = "none" THEN <<N_A>>
                         ELSE IF guess.base.t = "str" THEN guess.base.p.c
                         ELSE IF guess.base.id = id THEN <<"-">>
                         ELSE h[guess.base.id].path
             IN  Outcome("ok", <<host, guess.path, <<conda_ver>>, python_out, base>>)

\* print(guess): Guess.__str__ gives the path.
print_guess(h, id) == Outcome("ok", <<h[id].path>>)

\* REPORT_CHOICES[choice](guess).
Report(choice, h, id) ==
    IF choice = "jira" THEN report_for_jira(h, id) ELSE print_guess(h, id)

----------------------------------------------------------------------------
(* The call stack *)

\* A frame of make_guess(dirpath) or of Guess.__init__(self, dirpath):
\* pc is where it stands, obj the Guess it holds (0: none yet).
\*   make_guess: "lookup" (line 48), "construct" (inside Guess(), line 49),
\*               "got" (line 50), "rebase" (inside make_guess(base), line 53)
\*   __init__:   "find_base" (line 67), "await_base" (inside make_guess,
\*               line 91), "find_versions" (line 68)
Frame(fn, pc, dirpath, obj) == [fn |-> fn, pc |-> pc, dirpath |-> dirpath, obj |-> obj]

Top == stack[Len(stack)]
Below == SubSeq(stack, 1, Len(stack) - 1)
SetTop(fr) == [stack EXCEPT ![Len(stack)] = fr]
Running == spc = "guess" /\ stack # <<>> /\ exc = "none"

\* The current survey call, counted from 1.
Walk == startIdx

Put(map, key, val) == [k \in DOMAIN map \cup {key} |-> IF k = key THEN val ELSE map[k]]

----------------------------------------------------------------------------
(* main and survey *)

\* A mutant of StartSurvey: each survey call starts with an empty cache.
StartSurveyFresh ==
    /\ spc = "main" /\ startIdx < Len(starts)
    /\ startIdx' = startIdx + 1
    /\ pending' = <<starts[startIdx + 1]>>
    /\ spc' = "walk"
    /\ GUESSES' = <<>>
    /\ UNCHANGED <<fs, starts, report, cur, stack, ret, heap, reported, errors,
                   visited, returned, classified, exc, nmut>>

\* main, line 178-179: the next start directory is handed to survey, whose
\* os.walk starts with it.
StartSurvey ==
    /\ spc = "main" /\ startIdx < Len(starts)
    /\ startIdx' = startIdx + 1
    /\ pending' = <<starts[startIdx + 1]>>
    /\ spc' = "walk"
    /\ UNCHANGED <<fs, starts, report, cur, stack, ret, heap, GUESSES, reported, errors,
                   visited, returned, classified, exc, nmut>>

\* main, line 180: sys.exit(0) after the last start directory.
Exit ==
    /\ spc = "main" /\ startIdx = Len(starts)
    /\ spc' = "done"
    /\ UNCHANGED <<fs, starts, report, startIdx, pending, cur, stack, ret, heap, GUESSES,
                   reported, errors, visited, returned, classified, exc, nmut>>

\* os.walk cannot list the next directory: it calls onerror and yields
\* nothing for it.
WalkError ==
    /\ spc = "walk" /\ pending # <<>>
    /\ ~CanList(fs, Head(pending))
    /\ errors' = Append(errors, [walk |-> Walk, dirpath |-> Head(pending)])
    /\ pending' = Tail(pending)
    /\ UNCHANGED <<fs, starts, report, startIdx, spc, cur, stack, ret, heap, GUESSES,
                   reported, visited, returned, classified, exc, nmut>>

\* os.walk yields the next directory and survey's loop body calls
\* make_guess(dirpath), line 34.
WalkYield ==
    /\ spc = "walk" /\ pending # <<>>
    /\ CanList(fs, Head(pending))
    /\ cur' = Head(pending)
    /\ pending' = Tail(pending)
    /\ visited' = Append(visited, [walk |-> Walk, dirpath |-> Head(pending),
                                   path |-> Abspath(Head(pending))])
    /\ stack' = <<Frame("make_guess", "lookup", Head(pending), 0)>>
    /\ spc' = "guess"
    /\ UNCHANGED <<fs, starts, report, startIdx, ret, heap, GUESSES, reported, errors,
                   returned, classified, exc, nmut>>

\* os.walk is exhausted: survey returns to main.
WalkEnd ==
    /\ spc = "walk" /\ pending = <<>>
    /\ spc' = "main"
    /\ cur' = NoPath
    /\ UNCHANGED <<fs, starts, report, startIdx, pending, stack, ret, heap, GUESSES,
                   reported, errors, visited, returned, classified, exc, nmut>>

\* A mutant of ShouldPrune: an environment is reported but not pruned.
ShouldPruneNamesOnly(isenv, dirpath, avoidset) == Basename(dirpath) \in avoidset

\* survey, lines 33-41: whether the subdirectories are dropped.
ShouldPrune(isenv, dirpath, avoidset) ==
    IF isenv THEN TRUE ELSE Basename(dirpath) \in avoidset

\* A mutant of SurveyIsEnv: the answer is the one the constructor got.
SurveyIsEnvAtInit(f, id) ==
    \E i \in 1..Len(classified) : classified[i].obj = id /\ classified[i].isenv

\* survey, line 35: guess.is_conda_environment().
SurveyIsEnv(f, id) == is_conda_environment(f, heap[id].path)

\* The directories os.walk goes on to after the loop body: the dirnames
\* left, joined to the dirpath, before what was pending.
Descend(f, dirpath, prune) ==
    IF prune THEN <<>>
    ELSE LET names == Dirnames(f, Abspath(dirpath))
         IN  [i \in 1..Len(names) |-> Join(dirpath, Path(FALSE, <<names[i]>>))]

\* survey, lines 35-43, once make_guess has returned.  An exception the
\* reporter raises leaves survey and main: nothing catches it.
Classify ==
    /\ spc = "guess" /\ stack = <<>> /\ ret # 0 /\ exc = "none"
    /\ LET guess == heap[ret]
           isenv == SurveyIsEnv(fs, ret)
           prune == ShouldPrune(isenv, cur, PATHOLOGICAL_DIRS)
           out == Report(report, heap, ret)
           raises == isenv /\ out.status # "ok"
       IN  /\ reported' = IF isenv
                          THEN Append(reported, [walk |-> Walk, obj |-> ret,
                                                 path |-> guess.path, dirpath |-> cur,
                                                 nvisited |-> Len(visited),
                                                 nclassified |-> Len(classified),
                                                 out |-> out])
                          ELSE reported
           /\ pending' = IF raises THEN pending ELSE Descend(fs, cur, prune) \o pending
           /\ spc' = IF raises THEN "crashed" ELSE "walk"
           /\ exc' = IF raises THEN out.status ELSE exc
    /\ ret' = 0
    /\ UNCHANGED <<fs, starts, report, startIdx, cur, stack, heap, GUESSES, errors,
                   visited, returned, classified, nmut>>

----------------------------------------------------------------------------
(* make_guess and Guess.__init__ *)

\* A call that would exceed the interpreter's limit raises RecursionError.
CanCall == Len(stack) < RecursionLimit

\* A mutant of MGMiss: the new object is put in the cache before its
\* constructor runs.
MGMissStoringFirst ==
    /\ Running /\ Top.fn = "make_guess" /\ Top.pc = "lookup"
    /\ Abspath(Top.dirpath) \notin DOMAIN GUESSES
    /\ CanCall
    /\ heap' = Append(heap, NewGuess(Top.dirpath))
    /\ GUESSES' = Put(GUESSES, Abspath(Top.dirpath), Len(heap) + 1)
    /\ stack' = Append(SetTop([Top EXCEPT !.pc = "construct"]),
                       Frame("init", "find_base", Top.dirpath, Len(heap) + 1))
    /\ UNCHANGED <<fs, starts, report, startIdx, spc, pending, cur, ret, reported,
                   errors, visited, returned, classified, exc, nmut>>

\* make_guess, lines 47-49: the path is not in the cache, Guess(dirpath) is
\* called; the object exists from here on, the cache entry only once the
\* constructor has returned.
MGMiss ==
    /\ Running /\ Top.fn = "make_guess" /\ Top.pc = "lookup"
    /\ Abspath(Top.dirpath) \notin DOMAIN GUESSES
    /\ CanCall
    /\ heap' = Append(heap, NewGuess(Top.dirpath))
    /\ stack' = Append(SetTop([Top EXCEPT !.pc = "construct"]),
                       Frame("init", "find_base", Top.dirpath, Len(heap) + 1))
    /\ UNCHANGED <<fs, starts, report, startIdx, spc, pending, cur, ret, GUESSES, reported,
                   errors, visited, returned, classified, exc, nmut>>

\* make_guess, line 48: the path is in the cache.
MGHit ==
    /\ Running /\ Top.fn = "make_guess" /\ Top.pc = "lookup"
    /\ Abspath(Top.dirpath) \in DOMAIN GUESSES
    /\ stack' = SetTop([Top EXCEPT !.pc = "got"])
    /\ UNCHANGED <<fs, starts, report, startIdx, spc, pending, cur, ret, heap, GUESSES,
                   reported, errors, visited, returned, classified, exc, nmut>>

\* What _find_base's test of is_conda_environment, line 82, found for a
\* Guess under construction.
Classified(obj, path) ==
    [walk |-> Walk, obj |-> obj, path |-> path, isenv |-> is_conda_environment(fs, path)]

\* _find_base, lines 81-94, when it makes no call: base is None, self or
\* the candidate directory as a string.
FindBaseLocal ==
    /\ Running /\ Top.fn = "init" /\ Top.pc = "find_base"
    /\ LET g == heap[Top.obj]
           step == find_base(fs, g.path)
       IN  /\ step.kind # "call"
           /\ heap' = [heap EXCEPT ![Top.obj].base =
                          IF step.kind = "self" THEN BaseObj(Top.obj)
                          ELSE IF step.kind = "str" THEN BaseStr(step.dir)
                          ELSE BaseNone]
           /\ classified' = Append(classified, Classified(Top.obj, g.path))
    /\ stack' = SetTop([Top EXCEPT !.pc = "find_versions"])
    /\ UNCHANGED <<fs, starts, report, startIdx, spc, pending, cur, ret, GUESSES, reported,
                   errors, visited, returned, exc, nmut>>

\* _find_base, line 91: make_guess(base_dir) is called.
FindBaseCall ==
    /\ Running /\ Top.fn = "init" /\ Top.pc = "find_base"
    /\ LET g == heap[Top.obj]
           step == find_base(fs, g.path)
       IN  /\ step.kind = "call"
           /\ CanCall
           /\ stack' = Append(SetTop([Top EXCEPT !.pc = "await_base"]),
                              Frame("make_guess", "lookup", step.dir, 0))
           /\ classified' = Append(classified, Classified(Top.obj, g.path))
    /\ UNCHANGED <<fs, starts, report, startIdx, spc, pending, cur, ret, heap, GUESSES,
                   reported, errors, visited, returned, exc, nmut>>

\* _find_base, lines 91 and 94: make_guess(base_dir) has returned.
FindBaseResume ==
    /\ Running /\ Top.fn = "init" /\ Top.pc = "await_base" /\ ret # 0
    /\ heap' = [heap EXCEPT ![Top.obj].base = BaseObj(ret)]
    /\ ret' = 0
    /\ stack' = SetTop([Top EXCEPT !.pc = "find_versions"])
    /\ UNCHANGED <<fs, starts, report, startIdx, spc, pending, cur, GUESSES, reported,
                   errors, visited, returned, classified, exc, nmut>>

\* _find_versions, lines 97-117, then __init__ returns and make_guess stores
\* the object in the cache, line 49.
FindVersionsStore ==
    /\ Running /\ Top.fn = "init" /\ Top.pc = "find_versions"
    /\ LET g == heap[Top.obj]
           res == find_versions(fs, g.path)
           caller == stack[Len(stack) - 1]
       IN  /\ res.status = "ok"
           /\ heap' = [heap EXCEPT ![Top.obj].versions = res.versions]
           /\ GUESSES' = Put(GUESSES, Abspath(caller.dirpath), Top.obj)
           /\ stack' = Append(SubSeq(stack, 1, Len(stack) - 2),
                              [caller EXCEPT !.pc = "got"])
    /\ UNCHANGED <<fs, starts, report, startIdx, spc, pending, cur, ret, reported, errors,
                   visited, returned, classified, exc, nmut>>

\* _find_versions raises: os.listdir or open fails (OSError), or json.load
\* fails and the except clause re-raises (ParseError).  Nothing catches it.
FindVersionsRaise ==
    /\ Running /\ Top.fn = "init" /\ Top.pc = "find_versions"
    /\ LET res == find_versions(fs, heap[Top.obj].path)
       IN  /\ res.status # "ok"
           /\ exc' = res.status
    /\ stack' = <<>>
    /\ spc' = "crashed"
    /\ UNCHANGED <<fs, starts, report, startIdx, pending, cur, ret, heap, GUESSES, reported,
                   errors, visited, returned, classified, nmut>>

\* A mutant of NeedsRebase: a string base is left as it is.
NeedsRebaseNever(base) == FALSE

\* make_guess, line 52: type(base) == str.
NeedsRebase(base) == base.t = "str"

\* make_guess, lines 50-54, when base is no string: the cached object is
\* returned.
MGReturn ==
    /\ Running /\ Top.fn = "make_guess" /\ Top.pc = "got"
    /\ LET guess == GUESSES[Abspath(Top.dirpath)]
       IN  /\ ~NeedsRebase(heap[guess].base)
           /\ ret' = guess
           /\ returned' = Append(returned, [walk |-> Walk, dirpath |-> Top.dirpath,
                                            path |-> Abspath(Top.dirpath), obj |-> guess])
    /\ stack' = Below
    /\ UNCHANGED <<fs, starts, report, startIdx, spc, pending, cur, heap, GUESSES, reported,
                   errors, visited, classified, exc, nmut>>

\* make_guess, lines 50-53, when base is a string: make_guess(base) is called.
MGRebase ==
    /\ Running /\ Top.fn = "make_guess" /\ Top.pc = "got"
    /\ LET guess == GUESSES[Abspath(Top.dirpath)]
       IN  /\ NeedsRebase(heap[guess].base)
           /\ CanCall
           /\ stack' = Append(SetTop([Top EXCEPT !.pc = "rebase", !.obj = guess]),
                              Frame("make_guess", "lookup", heap[guess].base.p, 0))
    /\ UNCHANGED <<fs, starts, report, startIdx, spc, pending, cur, ret, heap, GUESSES,
                   reported, errors, visited, returned, classified, exc, nmut>>

\* A mutant of MGRebaseResume: what make_guess(base) returned is dropped and
\* guess returned with the string as its base.
MGRebaseResumeKeepingString ==
    /\ Running /\ Top.fn = "make_guess" /\ Top.pc = "rebase" /\ ret # 0
    /\ ret' = Top.obj
    /\ returned' = Append(returned, [walk |-> Walk, dirpath |-> Top.dirpath,
                                     path |-> Abspath(Top.dirpath), obj |-> Top.obj])
    /\ stack' = Below
    /\ UNCHANGED <<fs, starts, report, startIdx, spc, pending, cur, heap, GUESSES, reported,
                   errors, visited, classified, exc, nmut>>

\* make_guess, lines 53-54: make_guess(base) has returned; guess.base is
\* assigned and guess returned.
MGRebaseResume ==
    /\ Running /\ Top.fn = "make_guess" /\ Top.pc = "rebase" /\ ret # 0
    /\ heap' = [heap EXCEPT ![Top.obj].base = BaseObj(ret)]
    /\ ret' = Top.obj
    /\ returned' = Append(returned, [walk |-> Walk, dirpath |-> Top.dirpath,
                                     path |-> Abspath(Top.dirpath), obj |-> Top.obj])
    /\ stack' = Below
    /\ UNCHANGED <<fs, starts, report, startIdx, spc, pending, cur, GUESSES, reported,
                   errors, visited, classified, exc, nmut>>

\* Whether the top frame is about to make a call.
WantsCall ==
    \/ /\ Top.fn = "make_guess" /\ Top.pc = "lookup"
       /\ Abspath(Top.dirpath) \notin DOMAIN GUESSES
    \/ /\ Top.fn = "init" /\ Top.pc = "find_base"
       /\ find_base(fs, heap[Top.obj].path).kind = "call"
    \/ /\ Top.fn = "make_guess" /\ Top.pc = "got"
       /\ NeedsRebase(heap[GUESSES[Abspath(Top.dirpath)]].base)

\* The call stack is full and another call is made: RecursionError, which
\* nothing catches.
RaiseRecursionError ==
    /\ Running /\ WantsCall /\ ~CanCall
    /\ exc' = "RecursionError"
    /\ stack' = <<>>
    /\ spc' = "crashed"
    /\ UNCHANGED <<fs, starts, report, startIdx, pending, cur, ret, heap, GUESSES, reported,
                   errors, visited, returned, classified, nmut>>

----------------------------------------------------------------------------
(* The filesystem changing under the program *)

\* Another process creates or removes envA/conda-meta, with its history
\* file, while the program runs: between two steps of main and survey, or
\* between make_guess returning and survey asking is_conda_environment.
Mutate ==
    /\ exc = "none"
    /\ spc \in {"main", "walk"} \/ (spc = "guess" /\ stack = <<>>)
    /\ nmut < MaxMutations
    /\ fs' = [fs EXCEPT !.meta[DirA] = IF fs.meta[DirA] = "env" THEN "none" ELSE "env"]
    /\ nmut' = nmut + 1
    /\ UNCHANGED <<starts, report, startIdx, spc, pending, cur, stack, ret, heap, GUESSES,
                   reported, errors, visited, returned, classified, exc>>

----------------------------------------------------------------------------
(* The filesystems and command lines the model runs on *)

T_A == Path(TRUE, DirA \o <<"bin", "activate">>)
T_B == Path(TRUE, DirB \o <<"bin", "activate">>)
T_Apy == Path(TRUE, DirA \o <<"bin", "python">>)
T_Bpy == Path(TRUE, DirB \o <<"bin", "python">>)
T_relA == Path(FALSE, <<"..", "..", "envA", "bin", "activate">>)
T_self == Path(FALSE, <<"activate">>)
T_selfpy == Path(FALSE, <<"python">>)
T_gone == Path(TRUE, Cwd \o <<"gone", "bin", "activate">>)
T_sub == Path(TRUE, DirASub \o <<"bin", "activate">>)
T_Anosuch == Path(TRUE, DirA \o <<"bin", "nosuch">>)

F_conda == MetaFile(<<"conda", "-4.9.0-py39", ".json">>, TRUE, TRUE, "conda", "4.9.0")
F_python == MetaFile(<<"python", "-3.9.0-h1", ".json">>, TRUE, TRUE, "python", "3.9.0")
F_python2 == MetaFile(<<"python", "-2.7.18-h1", ".json">>, TRUE, TRUE, "python", "2.7.18")
F_condaenv == MetaFile(<<"conda", "-env-2.6.0", ".json">>, TRUE, TRUE, "conda-env", "2.6.0")
F_numpybad == MetaFile(<<"numpy", "-1.20.1", ".json">>, TRUE, FALSE, "None", "None")
F_notes == MetaFile(<<"conda", "-notes", ".txt">>, TRUE, FALSE, "None", "None")
F_bad == MetaFile(<<"python", "-3.8.1-h2", ".json">>, TRUE, FALSE, "None", "None")
F_noopen == MetaFile(<<"conda", "-4.8.0-py38", ".json">>, FALSE, TRUE, "conda", "4.8.0")
F_nover == MetaFile(<<"python", "-3.7.0-h3", ".json">>, TRUE, TRUE, "python", "None")
F_noname == MetaFile(<<"conda", "-4.7.0-py37", ".json">>, TRUE, TRUE, "None", "4.7.0")

L_std == <<F_conda, F_python, F_numpybad, F_notes>>
L_bad == <<F_conda, F_bad, F_python>>
L_noopen == <<F_noopen, F_python>>
L_nover == <<F_conda, F_nover>>
L_noname == <<F_noname, F_condaenv>>
L_py2 == <<F_python2>>

\* The kinds of fault of a directory, and the conda-meta listing each gives.
Faults == {"list", "metaread", "bad", "noopen", "nover", "noname", "py2"}
ListingFor(fault) ==
    IF fault = "bad" THEN L_bad ELSE IF fault = "noopen" THEN L_noopen
    ELSE IF fault = "nover" THEN L_nover ELSE IF fault = "noname" THEN L_noname
    ELSE IF fault = "py2" THEN L_py2 ELSE L_std

OrderAB == <<"envA", "envB", ".git">>
OrderBA == <<"envB", ".git", "envA">>

ForDirs(r, a, s, b, g, gs) ==
    [d \in DirSet |-> IF d = DirRoot THEN r ELSE IF d = DirA THEN a
                      ELSE IF d = DirASub THEN s ELSE IF d = DirB THEN b
                      ELSE IF d = DirGit THEN g ELSE gs]

AllDirs(x) == [d \in DirSet |-> x]

Config(meta, act, listable, metaread, files, order, sts) ==
    [fs |-> [meta |-> meta, act |-> act, listable |-> listable,
             metaread |-> metaread, files |-> files, order |-> order],
     starts |-> sts, report |-> "print"]

ActsA == {ActAbsent, ActFile, ActLink(T_B), ActLink(T_self), ActLink(T_selfpy),
          ActLink(T_Bpy), ActLink(T_sub)}
ActsB == {ActAbsent, ActFile, ActLink(T_A), ActLink(T_Apy), ActLink(T_relA),
          ActLink(T_gone), ActLink(T_sub), ActLink(T_Anosuch)}

\* The working directory surveyed once, with every combination of markers
\* and activation files and no failing operation.
LinkConfigs ==
    { Config(ForDirs("none", ma, ms, mb, "none", "env"),
             ForDirs(ActAbsent, aa, ActFile, ab, ActFile, ActFile),
             AllDirs(TRUE), AllDirs(TRUE), AllDirs(L_std), o, <<Path(FALSE, <<".">>)>>) :
        ma \in {"none", "nohist", "env"}, ms \in {"none", "env"}, mb \in {"none", "env"},
        aa \in ActsA, ab \in ActsB, o \in {OrderAB, OrderBA} }

\* The ways the start directories are spelled on the command line.
StartLists ==
    { <<Path(FALSE, <<".">>)>>,
      <<Path(FALSE, <<"envA">>)>>,
      <<Path(FALSE, <<"envA", "">>)>>,
      <<Path(FALSE, <<".", "envA">>)>>,
      <<Path(TRUE, DirA)>>,
      <<Path(FALSE, <<".git">>)>>,
      <<Path(FALSE, <<".git", "">>)>>,
      <<Path(FALSE, <<"gone">>)>>,
      <<Path(FALSE, <<"envA", "sub", "..">>)>>,
      <<Path(FALSE, <<".">>), Path(FALSE, <<"envA", "">>)>>,
      <<Path(FALSE, <<"envB">>), Path(FALSE, <<".">>)>>,
      <<Path(FALSE, <<"envA", "">>), Path(FALSE, <<".", "envA">>)>>,
      <<Path(FALSE, <<"gone">>), Path(FALSE, <<".">>)>> }

\* envA a base or a plain directory, envB derived from it, under every
\* spelling of the start directories.
StartConfigs ==
    { Config(ForDirs("none", ma, "none", "env", mg, "env"),
             ForDirs(ActAbsent, ActFile, ActFile, ab, ActFile, ActFile),
             AllDirs(TRUE), AllDirs(TRUE), AllDirs(L_std), o, sts) :
        ma \in {"none", "env"}, mg \in {"none", "env"},
        ab \in {ActLink(T_A), ActLink(T_relA)}, o \in {OrderAB, OrderBA},
        sts \in StartLists }

\* One failing operation: a directory that cannot be listed, a conda-meta
\* that cannot be listed, or a listing with a file that cannot be opened or
\* parsed.
FaultConfigs ==
    { Config(ForDirs("none", "env", ms, "env", "none", "env"),
             ForDirs(ActAbsent, ActFile, ActFile, ab, ActFile, ActFile),
             [AllDirs(TRUE) EXCEPT ![d] = ~(fault = "list")],
             [AllDirs(TRUE) EXCEPT ![d] = ~(fault = "metaread")],
             [AllDirs(L_std) EXCEPT ![d] = ListingFor(fault)],
             o, sts) :
        ms \in {"none", "env"}, ab \in {ActFile, ActLink(T_A), ActLink(T_sub)},
        d \in {DirRoot, DirA, DirASub, DirB},
        fault \in Faults,
        o \in {OrderAB, OrderBA},
        sts \in {<<Path(FALSE, <<".">>)>>,
                 <<Path(FALSE, <<"envA", "">>), Path(FALSE, <<".">>)>>} }

\* The working directory surveyed once with --report jira.
JiraConfigs ==
    { [c EXCEPT !.report = "jira"] :
        c \in { f \in FaultConfigs : Len(f.starts) = 1 }
              \cup { l \in LinkConfigs : /\ l.fs.order = OrderAB
                                         /\ l.fs.meta[DirASub] = "none"
                                         /\ l.fs.meta[DirA] # "nohist" } }

Configs == LinkConfigs \cup StartConfigs \cup FaultConfigs \cup JiraConfigs

\* The runs during which the filesystem may change.
ChangingConfigs ==
    { c \in StartConfigs : c.fs.order = OrderAB /\ Len(c.starts) = 2 }
    \cup { c \in FaultConfigs : /\ c.fs.order = OrderAB /\ Len(c.starts) = 2
                                /\ c.fs.meta[DirASub] = "none"
                                /\ c.fs.act[DirB] = ActLink(T_A) }
    \cup { c \in LinkConfigs : /\ c.fs.order = OrderAB
                               /\ c.fs.meta[DirB] = "env" /\ c.fs.meta[DirASub] = "none"
                               /\ c.fs.meta[DirA] # "nohist"
                               /\ c.fs.act[DirB] \in {ActFile, ActLink(T_A)} }

InitWith(cfgs) ==
    /\ \E c \in cfgs : fs = c.fs /\ starts = c.starts /\ report = c.report
    /\ startIdx = 0
    /\ spc = "main"
    /\ pending = <<>>
    /\ cur = NoPath
    /\ stack = <<>>
    /\ ret = 0
    /\ heap = <<>>
    /\ GUESSES = <<>>
    /\ reported = <<>>
    /\ errors = <<>>
    /\ visited = <<>>
    /\ returned = <<>>
    /\ classified = <<>>
    /\ exc = "none"
    /\ nmut = 0

Init == InitWith(Configs)

InitChanging == InitWith(ChangingConfigs)

Next ==
    \/ StartSurvey
    \/ Exit
    \/ WalkError
    \/ WalkYield
    \/ WalkEnd
    \/ Classify
    \/ MGMiss
    \/ MGHit
    \/ FindBaseLocal
    \/ FindBaseCall
    \/ FindBaseResume
    \/ FindVersionsStore
    \/ FindVersionsRaise
    \/ MGReturn
    \/ MGRebase
    \/ MGRebaseResume
    \/ RaiseRecursionError

NextChanging == Next \/ Mutate

\* The program on a filesystem that stays as it is.
Spec == Init /\ [][Next]_vars

\* The program on a filesystem that another process changes once.
SpecChanging == InitChanging /\ [][NextChanging]_vars

----------------------------------------------------------------------------
(* Notions the properties are stated in *)

\* The absolute normalised form of a path string, from its spelling.
CanonicalForm(p) == Normpath(IF p.abs THEN p.c ELSE Cwd \o p.c)

\* Whether directory q lies beneath directory p.
Beneath(q, p) == Len(q) > Len(p) /\ SubSeq(q, 1, Len(p)) = p

\* Whether d has conda-meta as a directory and conda-meta/history as a file.
IsEnvNow(d) ==
    /\ Lstat(fs, Path(TRUE, d \o <<"conda-meta">>)) = "dir"
    /\ Lstat(fs, Path(TRUE, d \o <<"conda-meta", "history">>)) = "file"

\* The kind of d/bin/activate: "missing", "file" or "link".
ActivateKind(d) == Lstat(fs, Path(TRUE, d \o <<"bin", "activate">>))

\* Where d/bin/activate, a symbolic link, points, as an absolute path string.
ActivateTarget(d) ==
    LET t == fs.act[d].target
    IN  IF t.abs THEN t ELSE Path(TRUE, d \o <<"bin">> \o t.c)

\* The directory two levels above the target of d/bin/activate, as spelled
\* and in absolute normalised form.
CandidateBase(d) ==
    LET t == ActivateTarget(d) IN Path(TRUE, SubSeq(t.c, 1, Len(t.c) - 2))
CandidateDir(d) == Normpath(CandidateBase(d).c)

\* d is an environment whose activation link points at another link.
LinkToLink(d) ==
    /\ d \in DirSet /\ IsEnvNow(d) /\ ActivateKind(d) = "link"
    /\ Lstat(fs, ActivateTarget(d)) = "link"

\* d is an environment whose activation link points at something that is
\* no link (a file, a directory or nothing).
LinkToPlain(d) ==
    /\ d \in DirSet /\ IsEnvNow(d) /\ ActivateKind(d) = "link"
    /\ Lstat(fs, ActivateTarget(d)) # "link"

\* The Guess objects under construction, outermost first.
UnderConstruction == { i \in 1..Len(stack) : stack[i].fn = "init" }

----------------------------------------------------------------------------
(* C1 *)

\* C1: make_guess on an environment whose bin/activate is a symbolic link to
\* a symbolic link returns instead of erroring, also when the target leads
\* back to the same environment: the call survey made for such a directory
\* never ends in RecursionError.
C1_OneHopCycleReturns ==
    exc = "RecursionError"
        => ~(/\ LinkToLink(CanonicalForm(cur))
             /\ CandidateDir(CanonicalForm(cur)) = CanonicalForm(cur))

----------------------------------------------------------------------------
(* C2 *)

\* C2: a Guess under construction is already in the cache when a lookup of
\* its path is made re-entrantly, so the lookup finds that instance, and no
\* second Guess is constructed for a path.
C2_ReentrantLookupFindsInProgress ==
    /\ \A i \in UnderConstruction : \A j \in (i + 1)..Len(stack) :
          (/\ stack[j].fn = "make_guess" /\ stack[j].pc = "lookup"
           /\ CanonicalForm(stack[j].dirpath) = heap[stack[i].obj].path)
          => /\ heap[stack[i].obj].path \in DOMAIN GUESSES
             /\ GUESSES[heap[stack[i].obj].path] = stack[i].obj
    /\ \A a, b \in 1..Len(heap) : heap[a].path = heap[b].path => a = b

----------------------------------------------------------------------------
(* C3 *)

\* C3: two make_guess calls that returned and whose paths have the same
\* absolute normalised form returned the same object; every cache entry
\* holds a Guess of the key's path; and between make_guess calls no two
\* Guess objects exist for one path.
C3_Memoization ==
    /\ \A i, j \in 1..Len(returned) :
          CanonicalForm(returned[i].dirpath) = CanonicalForm(returned[j].dirpath)
              => returned[i].obj = returned[j].obj
    /\ \A k \in DOMAIN GUESSES : CanonicalForm(heap[GUESSES[k]].dirpath) = k
    /\ (exc = "none" /\ stack = <<>>)
          => \A a, b \in 1..Len(heap) :
                CanonicalForm(heap[a].dirpath) = CanonicalForm(heap[b].dirpath) => a = b

\* Two survey calls asked for one directory under two spellings and got
\* the same object.
C3_Witness ==
    \E i, j \in 1..Len(returned) :
        /\ returned[i].walk # returned[j].walk
        /\ returned[i].dirpath # returned[j].dirpath
        /\ CanonicalForm(returned[i].dirpath) = CanonicalForm(returned[j].dirpath)
        /\ returned[i].obj = returned[j].obj

----------------------------------------------------------------------------
(* C4 *)

\* What the constructor of object id found is_conda_environment to be.
EnvAtConstruction(id) ==
    \E i \in 1..Len(classified) : classified[i].obj = id /\ classified[i].isenv

\* survey has finished its loop body for the k-th visited directory.
LoopBodyDone(k) == k < Len(visited) \/ spc # "guess"

\* C4 as claimed: survey reports a visited directory exactly when its
\* cached Guess was an environment at construction, whatever happened to
\* the filesystem since.
C4_StatusFixedAtConstruction ==
    /\ \A i \in 1..Len(reported) : EnvAtConstruction(reported[i].obj)
    /\ \A k \in 1..Len(visited) :
          (/\ LoopBodyDone(k) /\ exc = "none"
           /\ visited[k].path \in DOMAIN GUESSES
           /\ EnvAtConstruction(GUESSES[visited[k].path]))
          => \E i \in 1..Len(reported) :
                reported[i].walk = visited[k].walk /\ reported[i].dirpath = visited[k].dirpath

\* C4 as amended: is_conda_environment probes the filesystem at each call,
\* so the step of survey that takes the Guess make_guess returned reports it
\* exactly when its directory is an environment at that moment, and prunes
\* then or when the name is in the avoid set.
C4_StatusProbedAtEachCall ==
    [][ (spc = "guess" /\ stack = <<>> /\ ret # 0 /\ spc' = "walk")
            => /\ (Len(reported') = Len(reported) + 1) <=> IsEnvNow(heap[ret].path)
               /\ IsEnvNow(heap[ret].path) => reported'[Len(reported')].obj = ret
               /\ IsEnvNow(heap[ret].path) => pending' = pending ]_vars

\* survey reported a Guess that was no environment when constructed, or
\* passed over one that was.
C4_Witness ==
    \/ \E i \in 1..Len(reported) : ~EnvAtConstruction(reported[i].obj)
    \/ \E k \in 1..Len(visited) :
          /\ LoopBodyDone(k) /\ exc = "none"
          /\ visited[k].path \in DOMAIN GUESSES
          /\ EnvAtConstruction(GUESSES[visited[k].path])
          /\ ~\E i \in 1..Len(reported) :
                reported[i].walk = visited[k].walk /\ reported[i].dirpath = visited[k].dirpath

----------------------------------------------------------------------------
(* C5 *)

\* C5: a filesystem error raised while survey runs, in listing a directory
\* for the walk or in inferring its Guess, goes to onerror and never ends
\* the walk.
C5_FilesystemErrorsTolerated == exc # "OSError"

----------------------------------------------------------------------------
(* C6 *)

\* After report i, in the same survey call, os.walk yields no directory
\* beneath the reported one and none is reported.
NotWalkedBeneath(i) ==
    /\ \A k \in (reported[i].nvisited + 1)..Len(visited) :
          visited[k].walk = reported[i].walk => ~Beneath(visited[k].path, reported[i].path)
    /\ \A j \in (i + 1)..Len(reported) :
          reported[j].walk = reported[i].walk => ~Beneath(reported[j].path, reported[i].path)

\* After report i, in the same survey call, no Guess is constructed (and so
\* tested by is_conda_environment) for a directory beneath the reported one.
NotClassifiedBeneath(i) ==
    \A k \in (reported[i].nclassified + 1)..Len(classified) :
        classified[k].walk = reported[i].walk => ~Beneath(classified[k].path, reported[i].path)

\* C6 as claimed: once an environment is reported, no directory beneath it
\* is visited, reported or classified during that walk.
C6_NothingBeneathEnvironment ==
    \A i \in 1..Len(reported) : NotWalkedBeneath(i) /\ NotClassifiedBeneath(i)

\* C6 as amended: once an environment is reported, no directory beneath it
\* is visited by the walk or reported during that walk.
C6_WalkPrunesEnvironment ==
    \A i \in 1..Len(reported) : NotWalkedBeneath(i)

\* envA, which has a subdirectory, was reported and the walk went on to
\* other directories and ended.
C6_Witness ==
    /\ spc = "main"
    /\ \E i \in 1..Len(reported) :
          /\ reported[i].path = DirA /\ reported[i].walk = Walk
          /\ \E k \in (reported[i].nvisited + 1)..Len(visited) : visited[k].walk = Walk

----------------------------------------------------------------------------
(* C7 *)

\* C7: a visited directory whose last path component is in the avoid set
\* and which is no environment is not reported, and no directory beneath it
\* is visited in that walk; the start directory included.
C7_DenylistPrunes ==
    \A k \in 1..Len(visited) :
        (/\ Last(visited[k].path) \in PATHOLOGICAL_DIRS
         /\ ~IsEnvNow(visited[k].path))
        => /\ \A i \in 1..Len(reported) :
                 ~(reported[i].walk = visited[k].walk /\ reported[i].path = visited[k].path)
           /\ \A j \in 1..Len(visited) :
                 visited[j].walk = visited[k].walk => ~Beneath(visited[j].path, visited[k].path)

----------------------------------------------------------------------------
(* C8 *)

\* d is an environment whose conda-meta can be listed and holds a file that
\* passes the extension and prefix filter, opens, and is not well-formed.
HasMalformedTracked(d) ==
    /\ d \in DirSet /\ IsEnvNow(d) /\ fs.metaread[d]
    /\ \E i \in 1..Len(fs.files[d]) :
          LET mf == fs.files[d][i]
          IN  /\ Last(mf.name) = ".json"
              /\ Head(mf.name) \in PACKAGES_FOR_GUESS_VERSIONS
              /\ mf.openable /\ ~mf.wellformed

\* C8: an environment with a malformed tracked metadata file never gets into
\* the cache, is never reported and never gets a versions dict; when its
\* constructor reaches _find_versions the run ends with the parse error, and
\* after that nothing is visited, reported or passed to onerror.
C8_ParseFailureFatal ==
    /\ [](/\ \A k \in DOMAIN GUESSES : ~HasMalformedTracked(k)
          /\ \A i \in 1..Len(reported) : ~HasMalformedTracked(reported[i].path)
          /\ \A a \in 1..Len(heap) :
                HasMalformedTracked(heap[a].path) => heap[a].versions = UnsetVersions
          /\ exc = "ParseError" => spc = "crashed" /\ stack = <<>>)
    /\ [][ /\ (/\ spc = "guess" /\ stack # <<>> /\ exc = "none"
               /\ Top.fn = "init" /\ Top.pc = "find_versions"
               /\ HasMalformedTracked(heap[Top.obj].path))
              => exc' = "ParseError"
           /\ exc = "ParseError"
              => visited' = visited /\ reported' = reported /\ errors' = errors ]_vars

\* The parse error ended the run at a malformed environment while
\* directories, or a whole start directory, were still to be scanned.
C8_Witness ==
    /\ exc = "ParseError"
    /\ HasMalformedTracked(CanonicalForm(cur))
    /\ pending # <<>> \/ startIdx < Len(starts)

----------------------------------------------------------------------------
(* C9 *)

\* C9: for every cached Guess: base is the Guess itself when it is an
\* environment with a regular file bin/activate; the cached Guess of the
\* directory two levels above the link's target when bin/activate is a link
\* to something that is no link; None when bin/activate is absent or the
\* directory is no environment.
C9_BaseResolution ==
    \A k \in DOMAIN GUESSES :
        LET g == heap[GUESSES[k]]
        IN  /\ (k \in DirSet /\ IsEnvNow(k) /\ ActivateKind(k) = "file")
                  => g.base = BaseObj(GUESSES[k])
            /\ LinkToPlain(k)
                  => /\ CandidateDir(k) \in DOMAIN GUESSES
                     /\ g.base = BaseObj(GUESSES[CandidateDir(k)])
            /\ (k \notin DirSet \/ ~IsEnvNow(k) \/ ActivateKind(k) = "missing")
                  => g.base = BaseNone

\* The cache holds a base (its own base), an environment derived from it by
\* a link to a regular file, and a directory that is no environment.
C9_Witness ==
    \E k1, k2, k3 \in DOMAIN GUESSES :
        /\ IsEnvNow(k1) /\ ActivateKind(k1) = "file"
        /\ heap[GUESSES[k1]].base = BaseObj(GUESSES[k1])
        /\ LinkToPlain(k2) /\ CandidateDir(k2) = k1
        /\ heap[GUESSES[k2]].base = BaseObj(GUESSES[k1])
        /\ ~IsEnvNow(k3) /\ heap[GUESSES[k3]].base = BaseNone

----------------------------------------------------------------------------
(* C10 *)

\* C10 as claimed: the Guess make_guess returns for an environment whose
\* activation link points at a link has the candidate base directory, a
\* string, as its base, and no make_guess call is made to resolve it.
C10_BaseStaysString ==
    /\ \A i \in 1..Len(returned) :
          LinkToLink(returned[i].path)
              => heap[returned[i].obj].base = BaseStr(CandidateBase(returned[i].path))
    /\ \A j \in 1..Len(stack) : stack[j].pc # "rebase"

\* C10 as amended: the Guess make_guess returns for such an environment has
\* the cached Guess of the candidate base directory as its base.
C10_BaseResolvedOnReturn ==
    \A i \in 1..Len(returned) :
        LinkToLink(returned[i].path)
            => /\ CandidateDir(returned[i].path) \in DOMAIN GUESSES
               /\ heap[returned[i].obj].base =
                      BaseObj(GUESSES[CandidateDir(returned[i].path)])

\* make_guess returned a Guess for an environment whose activation link
\* points at a link.
C10_Witness ==
    \E i \in 1..Len(returned) :
        /\ LinkToLink(returned[i].path)
        /\ heap[returned[i].obj].base.t = "obj"
        /\ heap[returned[i].obj].base.id # returned[i].obj

----------------------------------------------------------------------------
(* C11 *)

\* The entries of d/conda-meta, by position, that pass the extension and
\* prefix filter and whose parsed data has a name and a version.
NamedAndVersioned(d) ==
    { i \in 1..Len(fs.files[d]) :
        LET mf == fs.files[d][i]
        IN  /\ Last(mf.name) = ".json"
            /\ Head(mf.name) \in PACKAGES_FOR_GUESS_VERSIONS
            /\ mf.dname # "None" /\ mf.dversion # "None" }

\* C11: the versions of a cached Guess of an environment hold a key exactly
\* when a tracked .json file of its conda-meta has that name together with a
\* version, mapped to the version of the last such file; a file with a name
\* and no version adds no entry; the versions of a Guess of a directory that
\* is no environment are empty.
C11_VersionsOnlyWithNameAndVersion ==
    \A k \in DOMAIN GUESSES :
        LET g == heap[GUESSES[k]]
        IN  IF k \in DirSet /\ IsEnvNow(k)
            THEN \A key \in VersionKeys :
                    LET from == { i \in NamedAndVersioned(k) : fs.files[k][i].dname = key }
                    IN  IF from = {} THEN g.versions[key] = "absent"
                        ELSE \E i \in from :
                                /\ \A j \in from : j <= i
                                /\ g.versions[key] = fs.files[k][i].dversion
            ELSE g.versions = NoVersions

----------------------------------------------------------------------------
(* C12 *)

\* C12: the survey calls run one after another on one cache: a directory of
\* a later call is visited only after every report of an earlier call; no
\* Guess is constructed for a path a Guess was constructed for in an earlier
\* call, by the walk or by base resolution, and a make_guess of a later call
\* returns the earlier object; and every call that visits an environment
\* reports it, constructed earlier or not.
C12_SequentialScansSharedCache ==
    /\ \A i \in 1..Len(reported) : \A k \in 1..Len(visited) :
          visited[k].walk > reported[i].walk => k > reported[i].nvisited
    /\ \A k \in 1..(Len(visited) - 1) : visited[k].walk <= visited[k + 1].walk
    /\ \A a, b \in 1..Len(classified) :
          (classified[a].walk < classified[b].walk)
              => classified[a].path # classified[b].path
    /\ \A a \in 1..Len(classified) : \A j \in 1..Len(returned) :
          (classified[a].walk < returned[j].walk /\ classified[a].path = returned[j].path)
              => returned[j].obj = classified[a].obj
    /\ \A k \in 1..Len(visited) :
          (LoopBodyDone(k) /\ exc = "none" /\ IsEnvNow(visited[k].path))
              => \E i \in 1..Len(reported) :
                    /\ reported[i].walk = visited[k].walk
                    /\ reported[i].dirpath = visited[k].dirpath
                    /\ heap[reported[i].obj].path = visited[k].path

\* The first survey call reported an environment and constructed the Guess
\* of its base, which it did not visit; the second call visited and reported
\* both, with the objects of the first.
C12_Witness ==
    \E i, j, m \in 1..Len(reported) : \E a \in 1..Len(classified) :
        /\ reported[i].walk = 1 /\ reported[j].walk = 2 /\ reported[m].walk = 2
        /\ reported[j].path = reported[i].path /\ reported[j].obj = reported[i].obj
        /\ classified[a].walk = 1 /\ classified[a].path = reported[m].path
        /\ classified[a].obj = reported[m].obj
        /\ \A k \in 1..Len(visited) :
              visited[k].walk = 1 => visited[k].path # classified[a].path

----------------------------------------------------------------------------
(* C13 *)

\* Every tracked .json file of d/conda-meta opens, parses and has a name
\* and a version.
TrackedFilesSound(d) ==
    \A i \in 1..Len(fs.files[d]) :
        LET mf == fs.files[d][i]
        IN  (Last(mf.name) = ".json" /\ Head(mf.name) \in PACKAGES_FOR_GUESS_VERSIONS)
                => /\ mf.openable /\ mf.wellformed
                   /\ mf.dname # "None" /\ mf.dversion # "None"

\* The scenario: the working directory, no environment itself, is surveyed
\* once; it holds .git, no environment; envA, an environment with a regular
\* file bin/activate; and envB, an environment whose bin/activate is a link
\* to envA/bin/activate; every directory and conda-meta can be read and
\* the metadata files of both environments are sound.
ScenarioRoot ==
    /\ starts = <<Path(FALSE, <<".">>)>>
    /\ ~IsEnvNow(DirRoot) /\ ~IsEnvNow(DirGit)
    /\ IsEnvNow(DirA) /\ ActivateKind(DirA) = "file"
    /\ IsEnvNow(DirB) /\ ActivateKind(DirB) = "link"
    /\ Normpath(ActivateTarget(DirB).c) = DirA \o <<"bin", "activate">>
    /\ \A d \in DirSet : fs.listable[d] /\ fs.metaread[d]
    /\ TrackedFilesSound(DirA) /\ TrackedFilesSound(DirB)

\* C13: in the scenario the run ends normally with exactly two reports, in
\* the order the two siblings are listed: envA, whose base is itself, and
\* envB, whose base is the cached Guess of envA, the object reported for
\* envA; and nothing beneath .git is ever visited.
C13_ScenarioTwoReports ==
    ScenarioRoot
        => /\ exc = "none"
           /\ \A k \in 1..Len(visited) : ~Beneath(visited[k].path, DirGit)
           /\ \A i \in 1..Len(reported) : reported[i].path \in {DirA, DirB}
           /\ spc = "done"
                 => /\ Len(reported) = 2
                    /\ \E i, j \in 1..2 :
                          /\ reported[i].path = DirA /\ reported[j].path = DirB
                          /\ (i < j) <=> (fs.order = OrderAB)
                          /\ heap[reported[i].obj].base = BaseObj(reported[i].obj)
                          /\ heap[reported[j].obj].base = BaseObj(reported[i].obj)
                          /\ GUESSES[DirA] = reported[i].obj
                          /\ GUESSES[DirB] = reported[j].obj

\* The scenario has run to its end with envB listed, and so reported,
\* before envA, and with .git, which holds an environment, visited.
C13_Witness ==
    /\ ScenarioRoot /\ spc = "done"
    /\ fs.order = OrderBA /\ IsEnvNow(DirGitSub)
    /\ Len(reported) = 2 /\ reported[1].path = DirB /\ reported[2].path = DirA
    /\ \E k \in 1..Len(visited) : visited[k].path = DirGit

----------------------------------------------------------------------------
(* C14 *)

\* The snapshot has d/conda-meta as a directory with a regular file history.
HasMetaAndHistory(d) == d \in DirSet /\ fs.meta[d] = "env"

\* C14: every evaluation of is_conda_environment, by a constructor or by
\* survey, in whatever order the directories were visited and cached, gives
\* true exactly for a directory with conda-meta and conda-meta/history: a
\* constructor finds an environment, and assigns a base, only there, and
\* survey reports a visited directory exactly when it is one; a directory
\* without conda-meta, or with conda-meta and no history, is none even with
\* a bin/activate.
C14_EnvironmentTest ==
    /\ \A i \in 1..Len(classified) :
          classified[i].isenv <=> HasMetaAndHistory(classified[i].path)
    /\ \A a \in 1..Len(heap) :
          heap[a].base.t \in {"obj", "str"} => HasMetaAndHistory(heap[a].path)
    /\ \A i \in 1..Len(reported) : HasMetaAndHistory(reported[i].path)
    /\ \A k \in 1..Len(visited) :
          (LoopBodyDone(k) /\ exc = "none" /\ HasMetaAndHistory(visited[k].path))
              => \E i \in 1..Len(reported) :
                    /\ reported[i].walk = visited[k].walk
                    /\ reported[i].dirpath = visited[k].dirpath

\* The constructors found no environment in a directory with conda-meta, a
\* bin/activate and no history and in one with a bin/activate and no
\* conda-meta, and survey reported a directory with both markers.
C14_Witness ==
    \E i, j \in 1..Len(classified) : \E r \in 1..Len(reported) :
        /\ classified[i].path \in DirSet /\ classified[j].path \in DirSet
        /\ fs.meta[classified[i].path] = "nohist"
        /\ fs.act[classified[i].path].kind # "absent" /\ ~classified[i].isenv
        /\ fs.meta[classified[j].path] = "none"
        /\ fs.act[classified[j].path].kind # "absent" /\ ~classified[j].isenv
        /\ fs.meta[reported[r].path] = "env"

----------------------------------------------------------------------------
(* C15 *)

\* The Guess objects the cache holds.
Cached == { GUESSES[k] : k \in DOMAIN GUESSES }

\* Every attribute of object id has been assigned.
Populated(id) ==
    heap[id].base.t # "unset" /\ \A key \in VersionKeys : heap[id].versions[key] # "unset"

\* C15 as claimed: a Guess in the cache has every attribute assigned, and no
\* step changes the path, base or versions of a Guess that is in the cache.
C15_CachedGuessImmutable ==
    /\ [](\A id \in Cached : Populated(id))
    /\ [][ \A id \in Cached : heap'[id] = heap[id] ]_vars

\* C15 as amended: a Guess in the cache has every attribute assigned and
\* stays in the cache under its key; no step changes its path or versions;
\* its base changes only from a path string to the Guess make_guess returned
\* for that string.
C15_OnlyStringBaseReplaced ==
    /\ [](\A id \in Cached : Populated(id))
    /\ [][ /\ \A k \in DOMAIN GUESSES : k \in DOMAIN GUESSES' /\ GUESSES'[k] = GUESSES[k]
           /\ \A id \in Cached :
                 /\ heap'[id].path = heap[id].path
                 /\ heap'[id].dirpath = heap[id].dirpath
                 /\ heap'[id].versions = heap[id].versions
                 /\ \/ heap'[id].base = heap[id].base
                    \/ /\ heap[id].base.t = "str" /\ heap'[id].base.t = "obj"
                       /\ heap[heap'[id].base.id].path = CanonicalForm(heap[id].base.p)
                       /\ heap'[id].base.id \in Cached ]_vars

\* A Guess in the cache whose activation link points at a link, so that its
\* constructor left a path string as its base, has the cached Guess of that
\* path as its base now, and survey has reported it.
C15_Witness ==
    \E id \in Cached :
        /\ LinkToLink(heap[id].path)
        /\ heap[id].base.t = "obj" /\ heap[id].base.id \in Cached \ {id}
        /\ \E i \in 1..Len(reported) : reported[i].obj = id

----------------------------------------------------------------------------
(* C16 *)

\* d is an environment whose activation link points at nothing.
BrokenLink(d) ==
    /\ d \in DirSet /\ IsEnvNow(d) /\ ActivateKind(d) = "link"
    /\ Lstat(fs, ActivateTarget(d)) = "missing"

\* survey reports, in the same call, every directory with a broken
\* activation link whose loop body it has finished.
BrokenLinkReported ==
    \A k \in 1..Len(visited) :
        (LoopBodyDone(k) /\ exc = "none" /\ BrokenLink(visited[k].path))
            => \E i \in 1..Len(reported) :
                  /\ reported[i].walk = visited[k].walk
                  /\ reported[i].dirpath = visited[k].dirpath

\* C16 as claimed: the cached Guess of an environment with a broken
\* activation link has as its base the cached Guess of the directory two
\* levels above the target, which is no environment and has base None and
\* empty versions; the make_guess survey called for such an environment
\* never ends in RecursionError; and survey reports it.
C16_BrokenLinkBaseIsEmpty ==
    /\ \A k \in DOMAIN GUESSES :
          BrokenLink(k)
              => /\ CandidateDir(k) \in DOMAIN GUESSES
                 /\ heap[GUESSES[k]].base = BaseObj(GUESSES[CandidateDir(k)])
                 /\ ~IsEnvNow(CandidateDir(k))
                 /\ heap[GUESSES[CandidateDir(k)]].base = BaseNone
                 /\ heap[GUESSES[CandidateDir(k)]].versions = NoVersions
    /\ exc = "RecursionError" => ~BrokenLink(CanonicalForm(cur))
    /\ BrokenLinkReported

\* C16 as amended: the cached Guess of an environment with a broken
\* activation link has as its base the cached Guess of the directory two
\* levels above the target; when that directory is no environment its Guess
\* has base None and empty versions and the make_guess survey called never
\* ends in RecursionError; and survey reports the environment.
C16_BrokenLinkBaseIsGrandparent ==
    /\ \A k \in DOMAIN GUESSES :
          BrokenLink(k)
              => /\ CandidateDir(k) \in DOMAIN GUESSES
                 /\ heap[GUESSES[k]].base = BaseObj(GUESSES[CandidateDir(k)])
                 /\ ~IsEnvNow(CandidateDir(k))
                       => /\ heap[GUESSES[CandidateDir(k)]].base = BaseNone
                          /\ heap[GUESSES[CandidateDir(k)]].versions = NoVersions
    /\ (exc = "RecursionError" /\ BrokenLink(CanonicalForm(cur)))
          => IsEnvNow(CandidateDir(CanonicalForm(cur)))
    /\ BrokenLinkReported

\* survey has reported an environment whose activation link points into a
\* directory that does not exist, with the Guess of that directory as base.
C16_Witness ==
    \E i \in 1..Len(reported) :
        /\ BrokenLink(reported[i].path)
        /\ CandidateDir(reported[i].path) \notin DirSet
        /\ heap[reported[i].obj].base = BaseObj(GUESSES[CandidateDir(reported[i].path)])
        /\ heap[GUESSES[CandidateDir(reported[i].path)]].versions = NoVersions

----------------------------------------------------------------------------
(* C17 *)

\* The base of object id is None, the object itself, or another Guess that
\* the cache holds under the absolute path of its directory.
BaseWellFormed(id) ==
    LET b == heap[id].base
    IN  \/ b.t = "none"
        \/ /\ b.t = "obj"
           /\ \/ b.id = id
              \/ /\ CanonicalForm(heap[b.id].dirpath) \in DOMAIN GUESSES
                 /\ GUESSES[CanonicalForm(heap[b.id].dirpath)] = b.id

\* The objects reached from id by following base at most n times.
RECURSIVE BaseChain(_, _)
BaseChain(id, n) ==
    IF n = 0 \/ heap[id].base.t # "obj" \/ heap[id].base.id = id THEN {id}
    ELSE {id} \cup BaseChain(heap[id].base.id, n - 1)

\* C17: the Guess a make_guess call returned, and every Guess reached from
\* it by following base, has a base that is no path string: None, itself,
\* or a Guess in the cache under its own absolute path; so has every Guess
\* handed to report.
C17_ReturnedBaseNeverString ==
    /\ \A i \in 1..Len(returned) :
          \A id \in BaseChain(returned[i].obj, Len(heap)) : BaseWellFormed(id)
    /\ \A i \in 1..Len(reported) :
          \A id \in BaseChain(reported[i].obj, Len(heap)) : BaseWellFormed(id)

\* survey reported a Guess whose constructor left a path string as its
\* base, and whose base now is a Guess that has a third Guess as its base.
C17_Witness ==
    \E i \in 1..Len(reported) :
        LET g == heap[reported[i].obj]
        IN  /\ LinkToLink(g.path)
            /\ g.base.t = "obj"
            /\ Cardinality(BaseChain(reported[i].obj, Len(heap))) >= 3

----------------------------------------------------------------------------
(* C18 *)

\* C18: report_for_jira raises for no Guess survey passes to it, so a
\* survey with --report jira never ends in AttributeError; not for an
\* environment with a tracked metadata file that has a name and no version,
\* nor for one whose base is None or the Guess of a directory that does not
\* exist.
C18_JiraReporterNeverRaises ==
    /\ exc # "AttributeError"
    /\ \A i \in 1..Len(reported) :
          /\ reported[i].out.status = "ok"
          /\ report_for_jira(heap, reported[i].obj).status = "ok"

====
